---- MODULE Spec2Model ----
(***************************************************************************)
(* Model of src/weather.py: a webhook handler of a Telegram weather bot.   *)
(* One invocation of handler(event, context) is a sequential run through   *)
(* the program positions below; every outbound HTTP call is one step whose *)
(* response is chosen among the responses the provider can give.           *)
(*                                                                         *)
(* Input domain: the event body is either not valid JSON or a JSON object  *)
(* (an update); a message inside an update follows the platform's schema   *)
(* (it carries message_id and chat, a location carries latitude and        *)
(* longitude, a voice carries file_id and duration).  A provider failure   *)
(* is a response whose .ok is false and whose body is the provider's error *)
(* object; exceptions raised by the HTTP library itself are not modelled.  *)
(***************************************************************************)
EXTENDS Integers, Sequences, FiniteSets

VARIABLES cfg, event, pc, ret, exc, calls, sent, echo_text, address,
          lat, lon, r_address, w_args, degrees, direction

vars == <<cfg, event, pc, ret, exc, calls, sent, echo_text, address,
          lat, lon, r_address, w_args, degrees, direction>>

(***************************************************************************)
(* Bounds of the model.                                                    *)
(***************************************************************************)
MaxDuration == 31
MaxQc == 1
MaxDegrees == 360

(***************************************************************************)
(* Program constants.                                                      *)
(***************************************************************************)
MAX_VOICE_DURATION == 30

FUNC_RESPONSE == [statusCode |-> 200, body |-> ""]

(***************************************************************************)
(* Python values that flow through lat / lon: None or a number.            *)
(***************************************************************************)
PyNone == [t |-> "NoneType", v |-> 0]
PyNum(n) == [t |-> "number", v |-> n]

\* Python truthiness of a value: None and the number 0 are falsy.
Truthy(x) == x.t = "number" /\ x.v # 0

CoordNumbers == {0, 55}
\* What the geocoder reports for a candidate: no coordinates, or two numbers.
CoordPairs == {<<PyNone, PyNone>>}
              \cup {<<PyNum(a), PyNum(b)>> : a \in CoordNumbers, b \in CoordNumbers}

(***************************************************************************)
(* Configuration: which credentials the environment provides.              *)
(***************************************************************************)
Configs == [TELEGRAM_BOT_TOKEN : BOOLEAN, OW_API_KEY : BOOLEAN,
            DD_API_KEY : BOOLEAN, DD_SEC_KEY : BOOLEAN, YS_API_KEY : BOOLEAN]

(***************************************************************************)
(* Events.  A field that is absent keeps a default value.                  *)
(***************************************************************************)
Texts == {"/start", "/start ", "Moscow"}
Durations == (MAX_VOICE_DURATION - 1)..MaxDuration

NoMessage == [has_location |-> FALSE, location |-> <<PyNone, PyNone>>,
              has_text |-> FALSE, text |-> "",
              has_voice |-> FALSE, duration |-> 0]

Messages ==
    { [has_location |-> hl,
       location |-> IF hl THEN <<PyNum(55), PyNum(0)>> ELSE <<PyNone, PyNone>>,
       has_text |-> ht, text |-> IF ht THEN t ELSE "",
       has_voice |-> hv, duration |-> IF hv THEN d ELSE 0] :
      hl \in BOOLEAN, ht \in BOOLEAN, t \in Texts, hv \in BOOLEAN, d \in Durations }

Events == { [valid_json |-> FALSE, has_message |-> FALSE, message |-> NoMessage],
            [valid_json |-> TRUE, has_message |-> FALSE, message |-> NoMessage] }
          \cup { [valid_json |-> TRUE, has_message |-> TRUE, message |-> m] : m \in Messages }

(***************************************************************************)
(* Reply texts.                                                            *)
(***************************************************************************)
NoReport == [wind |-> "", visibility |-> ""]
Text(kind, addr, report) == [kind |-> kind, address |-> addr, report |-> report]
NoText == Text("", "", NoReport)
StartText == Text("start", "", NoReport)
TooLongText == Text("too_long", "", NoReport)
UnsupportedText == Text("unsupported", "", NoReport)
SttFailedText == Text("stt_failed", "", NoReport)
NotFoundText(a) == Text("not_found", a, NoReport)

(***************************************************************************)
(* get_wind_direction                                                      *)
(***************************************************************************)
directions == <<"N", "NE", "E", "SE", "S", "SW", "W", "NW">>

\* Python's round(n / m) for integers n >= 0, m > 0: nearest integer, ties to even.
PyRound_Floor(n, m) == n \div m

PyRound(n, m) ==
    LET q == n \div m
        r == n % m
    IN  IF 2 * r < m THEN q
        ELSE IF 2 * r > m THEN q + 1
        ELSE IF q % 2 = 0 THEN q ELSE q + 1

WindIndex(deg) == PyRound(deg, 45) % 8

get_wind_direction(deg) == directions[WindIndex(deg) + 1]


(***************************************************************************)
(* Provider responses.                                                     *)
(***************************************************************************)
\* Geocoding: a failed call (not .ok) carries no candidate.
GeoResponses ==
    { [ok |-> FALSE, qc |-> 0, geo_lat |-> PyNone, geo_lon |-> PyNone] }
    \cup { [ok |-> TRUE, qc |-> q, geo_lat |-> c[1], geo_lon |-> c[2]] :
             q \in 0..MaxQc, c \in CoordPairs }

\* Weather: either every indexed field is present or one is missing;
\* visibility is optional; deg is the wind bearing.
WindSamples == {0, 40}
WeatherResponses == [complete : BOOLEAN, has_visibility : BOOLEAN, deg : WindSamples]

Transcripts == {"Kazan", ""}

NoResponse == [ok |-> FALSE, qc |-> 0, geo_lat |-> PyNone, geo_lon |-> PyNone]

(***************************************************************************)
(* Control helpers.                                                        *)
(***************************************************************************)
NoReturn == [statusCode |-> 0, body |-> "running"]

Return == /\ pc' = "done"
          /\ ret' = FUNC_RESPONSE
          /\ exc' = exc

Raise(e) == /\ pc' = "done"
            /\ exc' = e
            /\ ret' = ret

Goto(p) == /\ pc' = p
           /\ ret' = ret
           /\ exc' = exc

Call(endpoint) == calls' = Append(calls, endpoint)

Init ==
    /\ cfg \in Configs
    /\ event \in Events
    /\ pc = "handler"
    /\ ret = NoReturn
    /\ exc = ""
    /\ calls = << >>
    /\ sent = << >>
    /\ echo_text = NoText
    /\ address = ""
    /\ lat = PyNone
    /\ lon = PyNone
    /\ r_address = NoResponse
    /\ w_args = << >>
    /\ degrees = 0
    /\ direction = ""

(***************************************************************************)
(* handler, lines 31-40: the entry guards.                                 *)
(***************************************************************************)
CredentialsPresent_NoWeatherKey == cfg.TELEGRAM_BOT_TOKEN

CredentialsPresent == cfg.TELEGRAM_BOT_TOKEN /\ cfg.OW_API_KEY

Guards ==
    /\ pc = "handler"
    /\ IF ~CredentialsPresent THEN Return
       ELSE IF ~event.valid_json THEN Raise("JSONDecodeError")
       ELSE IF ~event.has_message THEN Return
       ELSE Goto("dispatch")
    /\ UNCHANGED <<cfg, event, calls, sent, echo_text, address, lat, lon,
                   r_address, w_args, degrees, direction>>

(***************************************************************************)
(* handler, lines 42-66: the branches of the dispatcher.                   *)
(***************************************************************************)
message_in == event.message

IsStart_Prefix(text) == text \in {"/start", "/start "}

IsStart(text) == text = "/start"

GeocodingConfigured == cfg.DD_API_KEY /\ cfg.DD_SEC_KEY

VoiceAllowed_Strict(voice_duration) == voice_duration < MAX_VOICE_DURATION

VoiceAllowed(voice_duration) == voice_duration <= MAX_VOICE_DURATION

LocationBranch ==
    /\ pc = "dispatch"
    /\ message_in.has_location
    /\ lat' = message_in.location[1]
    /\ lon' = message_in.location[2]
    /\ Goto("get_weather_info")
    /\ UNCHANGED <<cfg, event, calls, sent, echo_text, address,
                   r_address, w_args, degrees, direction>>

TextBranch ==
    /\ pc = "dispatch"
    /\ ~message_in.has_location
    /\ message_in.has_text
    /\ IF IsStart(message_in.text)
         THEN /\ echo_text' = StartText
              /\ address' = address
              /\ Goto("send_start")
         ELSE IF ~GeocodingConfigured
           THEN /\ Return
                /\ UNCHANGED <<echo_text, address>>
           ELSE /\ address' = message_in.text
                /\ echo_text' = echo_text
                /\ Goto("get_coords_from_address")
    /\ UNCHANGED <<cfg, event, calls, sent, lat, lon,
                   r_address, w_args, degrees, direction>>

VoiceBranch ==
    /\ pc = "dispatch"
    /\ ~message_in.has_location
    /\ ~message_in.has_text
    /\ message_in.has_voice
    /\ IF ~cfg.YS_API_KEY
         THEN /\ Return
              /\ echo_text' = echo_text
         ELSE IF VoiceAllowed(message_in.duration)
           THEN /\ Goto("getFile")
                /\ echo_text' = echo_text
           ELSE /\ echo_text' = TooLongText
                /\ Goto("send_message")
    /\ UNCHANGED <<cfg, event, calls, sent, address, lat, lon,
                   r_address, w_args, degrees, direction>>

UnsupportedBranch ==
    /\ pc = "dispatch"
    /\ ~message_in.has_location
    /\ ~message_in.has_text
    /\ ~message_in.has_voice
    /\ echo_text' = UnsupportedText
    /\ Goto("send_message")
    /\ UNCHANGED <<cfg, event, calls, sent, address, lat, lon,
                   r_address, w_args, degrees, direction>>

(***************************************************************************)
(* process_voice_message, lines 126-143.                                   *)
(***************************************************************************)
\* line 129-130: getFile; a failed getFile response has no 'result'.
GetFile ==
    /\ pc = "getFile"
    /\ Call("getFile")
    /\ \E ok \in BOOLEAN :
         IF ok THEN Goto("download") ELSE Raise("KeyError:process_voice_message")
    /\ UNCHANGED <<cfg, event, sent, echo_text, address, lat, lon,
                   r_address, w_args, degrees, direction>>

\* line 132-133: the download; its content is used whatever the status.
Download ==
    /\ pc = "download"
    /\ Call("download")
    /\ Goto("stt")
    /\ UNCHANGED <<cfg, event, sent, echo_text, address, lat, lon,
                   r_address, w_args, degrees, direction>>

\* line 135-143: speech recognition.
Recognize ==
    /\ pc = "stt"
    /\ Call("stt")
    /\ \E ok \in BOOLEAN, result \in Transcripts :
         IF ok
           THEN /\ address' = result
                /\ echo_text' = echo_text
                /\ Goto("get_coords_from_address")
           ELSE /\ echo_text' = SttFailedText
                /\ address' = address
                /\ Goto("send_message")
    /\ UNCHANGED <<cfg, event, sent, lat, lon,
                   r_address, w_args, degrees, direction>>

(***************************************************************************)
(* get_coords_from_address, lines 82-91.                                   *)
(***************************************************************************)
Coords(raised, la, lo) == [raised |-> raised, lat |-> la, lon |-> lo]

get_coords_from_address_AnyQc(r) ==
    IF r.ok
      THEN Coords(FALSE, r.geo_lat, r.geo_lon)
      ELSE Coords(FALSE, PyNone, PyNone)

get_coords_from_address(r) ==
    IF r.ok /\ r.qc = 0
      THEN Coords(FALSE, r.geo_lat, r.geo_lon)
      ELSE Coords(FALSE, PyNone, PyNone)

GetCoords ==
    /\ pc = "get_coords_from_address"
    /\ Call("clean/address")
    /\ \E r \in GeoResponses :
         /\ r_address' = r
         /\ IF get_coords_from_address(r).raised
              THEN /\ Raise("KeyError:get_coords_from_address")
                   /\ UNCHANGED <<lat, lon>>
              ELSE /\ lat' = get_coords_from_address(r).lat
                   /\ lon' = get_coords_from_address(r).lon
                   /\ Goto("get_echo_text")
    /\ UNCHANGED <<cfg, event, sent, echo_text, address,
                   w_args, degrees, direction>>

(***************************************************************************)
(* get_echo_text, lines 75-79.                                             *)
(***************************************************************************)
HasCoords(la, lo) == Truthy(la) /\ Truthy(lo)

EchoText ==
    /\ pc = "get_echo_text"
    /\ IF HasCoords(lat, lon)
         THEN /\ Goto("get_weather_info")
              /\ echo_text' = echo_text
         ELSE /\ echo_text' = NotFoundText(address)
              /\ Goto("send_message")
    /\ UNCHANGED <<cfg, event, calls, sent, address, lat, lon,
                   r_address, w_args, degrees, direction>>

(***************************************************************************)
(* get_weather_info, lines 94-116.                                         *)
(***************************************************************************)
WeatherReport(w) ==
    [wind |-> get_wind_direction(w.deg),
     visibility |-> IF w.has_visibility THEN "metres" ELSE "no data"]

GetWeather ==
    /\ pc = "get_weather_info"
    /\ Call("weather")
    /\ w_args' = Append(w_args, <<lat, lon>>)
    /\ \E w \in WeatherResponses :
         IF w.complete
           THEN /\ degrees' = w.deg
                /\ direction' = get_wind_direction(w.deg)
                /\ echo_text' = Text("weather", "", WeatherReport(w))
                /\ Goto("send_message")
           ELSE /\ Raise("KeyError:get_weather_info")
                /\ UNCHANGED <<degrees, direction, echo_text>>
    /\ UNCHANGED <<cfg, event, sent, address, lat, lon, r_address>>

(***************************************************************************)
(* send_message, lines 15-26, at its two call sites.                       *)
(***************************************************************************)
send_message(text) ==
    /\ Call("sendMessage")
    /\ sent' = Append(sent, text)

SendStart_FallThrough ==
    /\ pc = "send_start"
    /\ send_message(echo_text)
    /\ Goto("send_message")
    /\ UNCHANGED <<cfg, event, echo_text, address, lat, lon,
                   r_address, w_args, degrees, direction>>

\* lines 48-49: the '/start' branch sends and returns.
SendStart ==
    /\ pc = "send_start"
    /\ send_message(echo_text)
    /\ Return
    /\ UNCHANGED <<cfg, event, echo_text, address, lat, lon,
                   r_address, w_args, degrees, direction>>

\* lines 68-69: the shared send at the end of handler.
Send ==
    /\ pc = "send_message"
    /\ send_message(echo_text)
    /\ Return
    /\ UNCHANGED <<cfg, event, echo_text, address, lat, lon,
                   r_address, w_args, degrees, direction>>

Next ==
    \/ Guards
    \/ LocationBranch
    \/ TextBranch
    \/ VoiceBranch
    \/ UnsupportedBranch
    \/ GetFile
    \/ Download
    \/ Recognize
    \/ GetCoords
    \/ EchoText
    \/ GetWeather
    \/ SendStart
    \/ Send

Spec == Init /\ [][Next]_vars

(***************************************************************************)
(* get_wind_direction applied to every bearing 0..MaxDegrees.              *)
(***************************************************************************)
InitWind ==
    /\ cfg = [TELEGRAM_BOT_TOKEN |-> TRUE, OW_API_KEY |-> TRUE, DD_API_KEY |-> TRUE,
              DD_SEC_KEY |-> TRUE, YS_API_KEY |-> TRUE]
    /\ event = [valid_json |-> FALSE, has_message |-> FALSE, message |-> NoMessage]
    /\ pc = "get_wind_direction"
    /\ ret = NoReturn
    /\ exc = ""
    /\ calls = << >>
    /\ sent = << >>
    /\ echo_text = NoText
    /\ address = ""
    /\ lat = PyNone
    /\ lon = PyNone
    /\ r_address = NoResponse
    /\ w_args = << >>
    /\ degrees \in 0..MaxDegrees
    /\ direction = ""

WindDirection ==
    /\ pc = "get_wind_direction"
    /\ direction' = get_wind_direction(degrees)
    /\ pc' = "wind_done"
    /\ UNCHANGED <<cfg, event, ret, exc, calls, sent, echo_text, address,
                   lat, lon, r_address, w_args, degrees>>

NextWind == WindDirection

SpecWind == InitWind /\ [][NextWind]_vars

(***************************************************************************)
(* Vocabulary of the properties.                                           *)
(***************************************************************************)
Count(endpoint) == Cardinality({i \in DOMAIN calls : calls[i] = endpoint})

ProviderEndpoints == {"getFile", "download", "stt", "clean/address", "weather"}

NoProviderCalls == \A i \in DOMAIN calls : calls[i] \notin ProviderEndpoints

GuardsPassed == CredentialsPresent /\ event.valid_json /\ event.has_message

Finished == pc = "done"

Abs(x) == IF x < 0 THEN -x ELSE x

(***************************************************************************)
(* C1: in every invocation send_message is called at most once; the        *)
(* '/start' branch, which sends on its own, never reaches the shared send. *)
(***************************************************************************)
C1_AtMostOneSend ==
    /\ Count("sendMessage") <= 1
    /\ Len(sent) <= 1
    /\ (Len(sent) = 1 /\ sent[1] = StartText => pc = "done")

C1_Witness ==
    /\ Finished
    /\ message_in.has_text /\ message_in.text = "/start"
    /\ Count("sendMessage") = 1

(***************************************************************************)
(* C2: handler always ends by returning the envelope                       *)
(* {statusCode: 200, body: ''}, whatever the inner outcome.                *)
(***************************************************************************)
C2_AlwaysReturnsEnvelope == Finished => (ret = FUNC_RESPONSE /\ exc = "")

(***************************************************************************)
(* C3: if the messaging credential or the weather credential is absent, or *)
(* the parsed update has no message, handler returns the envelope and      *)
(* makes no outbound HTTP call at all.                                     *)
(***************************************************************************)
C3_SilentNoOp ==
    (\/ ~cfg.TELEGRAM_BOT_TOKEN
     \/ ~cfg.OW_API_KEY
     \/ (event.valid_json /\ ~event.has_message))
    => /\ calls = << >>
       /\ sent = << >>
       /\ (Finished => ret = FUNC_RESPONSE /\ exc = "")

C3_Witness ==
    /\ Finished
    /\ cfg.TELEGRAM_BOT_TOKEN /\ ~cfg.OW_API_KEY
    /\ event.has_message /\ message_in.has_location
    /\ ret = FUNC_RESPONSE

(***************************************************************************)
(* C4: once the entry guards are passed, a failure of a downstream         *)
(* collaborator never propagates: the invocation ends without an exception *)
(* and with exactly one text reply sent.                                   *)
(***************************************************************************)
C4_FailuresNeverPropagate ==
    (GuardsPassed /\ Finished /\ calls # << >>)
    => (exc = "" /\ Len(sent) = 1)

(***************************************************************************)
(* C5: whenever the geocoding provider is called both geocoding            *)
(* credentials are configured, and whenever the speech provider is called  *)
(* the speech credential is configured.                                    *)
(***************************************************************************)
C5_CallsHaveCredentials ==
    /\ (Count("clean/address") > 0 => GeocodingConfigured)
    /\ (Count("stt") > 0 => cfg.YS_API_KEY)

(***************************************************************************)
(* C6: for a voice message (no location, no text) with the speech          *)
(* credential configured, a duration above 30 gives exactly one reply, the *)
(* 'too long' text, and no provider call; a duration of at most 30 starts  *)
(* the transcription with getFile.                                         *)
(***************************************************************************)
VoiceCase ==
    /\ GuardsPassed
    /\ ~message_in.has_location /\ ~message_in.has_text /\ message_in.has_voice
    /\ cfg.YS_API_KEY

C6_VoiceDuration ==
    VoiceCase =>
      /\ message_in.duration > 30 =>
           /\ NoProviderCalls
           /\ (Finished => sent = <<TooLongText>> /\ calls = <<"sendMessage">>)
      /\ message_in.duration <= 30 =>
           /\ (Finished => calls # << >> /\ calls[1] = "getFile")
           /\ (\A i \in DOMAIN sent : sent[i] # TooLongText)

C6_Witness ==
    /\ VoiceCase
    /\ Finished
    /\ message_in.duration = 31
    /\ sent = <<TooLongText>>

(***************************************************************************)
(* C7: get_echo_text answers 'place not found' exactly when the resolver   *)
(* yields (none, none); for every other pair, a zero latitude or longitude *)
(* included, the weather provider is called with exactly that pair.        *)
(***************************************************************************)
C7_NotFoundIffNoCoords ==
    (Count("clean/address") = 1 /\ pc \in {"get_weather_info", "send_message", "done"})
    => /\ (echo_text.kind = "not_found") <=> (lat = PyNone /\ lon = PyNone)
       /\ (Finished /\ ~(lat = PyNone /\ lon = PyNone)) => w_args = << <<lat, lon>> >>

(***************************************************************************)
(* C8: get_coords_from_address returns (geo_lat, geo_lon) of the first     *)
(* candidate exactly when the call succeeded with quality code 0, returns  *)
(* (none, none) otherwise, and never raises.                               *)
(***************************************************************************)
C8_CoordsExactlyOnQcZero ==
    (Count("clean/address") = 1) =>
       /\ (r_address.ok /\ r_address.qc = 0)
            => (lat = r_address.geo_lat /\ lon = r_address.geo_lon)
       /\ ~(r_address.ok /\ r_address.qc = 0)
            => (lat = PyNone /\ lon = PyNone)
       /\ exc # "KeyError:get_coords_from_address"

C8_Witness ==
    /\ Count("clean/address") = 1
    /\ r_address.ok /\ r_address.qc = 0
    /\ lat = PyNum(55) /\ lon = PyNum(55)

(***************************************************************************)
(* C9: a message past the entry guards, without location, whose text is    *)
(* exactly '/start' gets exactly one reply, the onboarding text, and no    *)
(* geocoding, weather or speech call, whatever the geocoding and speech    *)
(* credentials; any other text never gets the onboarding text and, with    *)
(* the geocoding credentials configured, is sent to the geocoder as the    *)
(* address.                                                                *)
(***************************************************************************)
TextCase == GuardsPassed /\ ~message_in.has_location /\ message_in.has_text

C9_StartCommand ==
    TextCase =>
      /\ message_in.text = "/start" =>
           /\ NoProviderCalls
           /\ (Finished => /\ sent = <<StartText>>
                           /\ calls = <<"sendMessage">>
                           /\ ret = FUNC_RESPONSE)
      /\ message_in.text # "/start" =>
           /\ echo_text # StartText
           /\ (\A i \in DOMAIN sent : sent[i] # StartText)
           /\ (Finished /\ GeocodingConfigured) =>
                (calls # << >> /\ calls[1] = "clean/address" /\ address = message_in.text)

C9_Witness ==
    /\ TextCase
    /\ Finished
    /\ message_in.text = "/start"
    /\ ~cfg.DD_API_KEY /\ ~cfg.YS_API_KEY
    /\ sent = <<StartText>>

(***************************************************************************)
(* C10: for every bearing d in 0..360 get_wind_direction returns the       *)
(* compass point whose multiple of 45 degrees is nearest to d, taken       *)
(* mod 8 in the list N, NE, E, SE, S, SW, W, NW; the index is in 0..7;     *)
(* 0 and 360 give N and 40 gives NE.                                       *)
(***************************************************************************)
Nearest(d) ==
    { k \in 0..(d \div 45 + 1) :
        \A j \in 0..(d \div 45 + 1) : Abs(d - 45 * k) <= Abs(d - 45 * j) }

C10_WindDirection ==
    (pc = "wind_done") =>
       /\ WindIndex(degrees) \in 0..7
       /\ \E k \in Nearest(degrees) : direction = directions[(k % 8) + 1]
       /\ Cardinality(Nearest(degrees)) = 1
       /\ (degrees \in {0, 360} => direction = "N")
       /\ (degrees = 40 => direction = "NE")

C10_Witness ==
    /\ pc = "wind_done"
    /\ degrees = 360
    /\ direction = "N"

====
